---- MODULE Spec2Model ----
(***************************************************************************)
(* Inventory-threshold and reorder-alert engine of flask-server/app.py:    *)
(* the usage and delivery ledgers, the per-material inventory record, the  *)
(* reorder_alerts table, and the handlers and background sweep that write  *)
(* them.                                                                   *)
(*                                                                         *)
(* Encoding of values:                                                     *)
(*   - a missing / NULL / falsy id or name is 0;                           *)
(*   - BadPid is a project id that is not a number (a JSON string such as  *)
(*     "p1"): it is truthy, SQLite stores and compares it as text, and     *)
(*     Python's int() raises ValueError on it;                             *)
(*   - GhostMid is a material id with no row in the materials table;       *)
(*   - a float that need not be an integer (threshold, suggested quantity, *)
(*     reorder point) is an exact fraction [n, d] in lowest terms;         *)
(*   - resp is the outcome of the last request handled, [op, code, rid]:    *)
(*     the HTTP status and the id the handler returns (usage_id,           *)
(*     delivery_id, project_id; 0 when it returns none); a finished run of *)
(*     the background sweep leaves op = "sweep";                           *)
(*   - a timestamp is [day, clock]: the calendar day and a clock that      *)
(*     advances whenever a timestamp is stored in an alert row, so that    *)
(*     two such timestamps are never equal; NullTs is a NULL timestamp;    *)
(*   - the response of the alert list has two more fields, the project     *)
(*     filter of the request (0 for none) and the body, the list of rows;  *)
(*   - logger and monitor are the positions and local variables of a       *)
(*     log_material_usage call and of the background sweep when these run  *)
(*     statement by statement; where a handler is one step both are Idle.  *)
(***************************************************************************)
EXTENDS Integers, Sequences, FiniteSets, TLC

VARIABLES projects, projectSeq, material_usage, usageSeq, material_deliveries,
          deliverySeq, inventory, inventorySeq, reorder_alerts, alertSeq,
          today, clock, resp, logger, monitor

vars == <<projects, projectSeq, material_usage, usageSeq, material_deliveries,
          deliverySeq, inventory, inventorySeq, reorder_alerts, alertSeq,
          today, clock, resp, logger, monitor>>

(* ------------------------------ bounds -------------------------------- *)

MaxUsage == 2

MaxDeliveries == 2

MaxProjectId == 2

MaxClock == 4

MaxDay == 61

(* ------------------------- request input values ----------------------- *)

BadPid == -1

GhostMid == 9

UserIds == {0, 7, 8}

(* logUsage requests <<project_id, material_id, quantity_used, logged_by>>:  *)
(* a usage of 1 for the pair (1, 2) and for another (text) project id, a    *)
(* material id without a materials row, and the four ways to miss a         *)
(* required field.                                                          *)
UsageRequests ==
    {<<2, 1, 1, 7>>, <<BadPid, 1, 1, 7>>, <<2, GhostMid, 1, 7>>,
     <<0, 1, 1, 7>>, <<2, 0, 1, 7>>, <<2, 1, 0, 7>>, <<2, 1, 1, 0>>}

(* logDelivery requests <<material_id, project_id, quantity_delivered,       *)
(* received_by>>: a delivery for the pair (1, 2), one with no project, one   *)
(* for another (text) project id, one for a material id without a materials *)
(* row, and the three ways to miss a required field.                        *)
DeliveryRequests ==
    {<<1, 2, 100, 7>>, <<1, 0, 100, 7>>, <<1, BadPid, 100, 7>>,
     <<GhostMid, 0, 100, 7>>, <<0, 2, 100, 7>>, <<1, 2, 0, 7>>, <<1, 2, 100, 0>>}

ForecastInputs == {-5, 0, 20}

ForecastKinds == {1, 2}

DayJumps == {61}

(* --------------------------- exact fractions -------------------------- *)

RECURSIVE GCD(_, _)
GCD(a, b) == IF b = 0 THEN a ELSE GCD(b, a % b)

Rat(n, d) == LET g == GCD(n, d) IN [n |-> n \div g, d |-> d \div g]

Zero == [n |-> 0, d |-> 1]

IntLess(s, r) == s * r.d < r.n

RatPositive(r) == r.n > 0

NullTs == [day |-> -1, clock |-> -1]

(* ------------------------- reference data ----------------------------- *)

MaterialNames == <<"Steel", "Conductor", "Transformers", "Earthwire",
                   "Foundation", "Reactors", "Tower">>

Materials == 1..Len(MaterialNames)

Lower(name) ==
    CASE name = "Steel" -> "steel"
      [] name = "Conductor" -> "conductor"
      [] name = "Transformers" -> "transformers"
      [] name = "Earthwire" -> "earthwire"
      [] name = "Foundation" -> "foundation"
      [] name = "Reactors" -> "reactors"
      [] name = "Tower" -> "tower"
      [] OTHER -> name

MATERIAL_DEFAULTS ==
    [steel |-> 75, conductor |-> 90, transformers |-> 75, earthwire |-> 75,
     foundation |-> 75, reactors |-> 75, tower |-> 75]

DefaultsGet(key, default) ==
    IF key \in DOMAIN MATERIAL_DEFAULTS THEN MATERIAL_DEFAULTS[key] ELSE default

NameKey(material_id) ==
    IF material_id \in Materials THEN Lower(MaterialNames[material_id]) ELSE ""

(* ------------------------- aggregate queries -------------------------- *)

RECURSIVE SumUsed(_)
SumUsed(S) ==
    IF S = {} THEN 0
    ELSE LET e == CHOOSE x \in S : TRUE IN e.quantity_used + SumUsed(S \ {e})

RECURSIVE SumPositive(_)
SumPositive(S) ==
    IF S = {} THEN 0
    ELSE LET e == CHOOSE x \in S : TRUE
         IN (IF e.quantity_used > 0 THEN e.quantity_used ELSE 0) + SumPositive(S \ {e})

RECURSIVE SumDelivered(_)
SumDelivered(S) ==
    IF S = {} THEN 0
    ELSE LET e == CHOOSE x \in S : TRUE IN e.quantity_delivered + SumDelivered(S \ {e})

UsageOf(usage, m, p) == {e \in usage : e.material_id = m /\ e.project_id = p}

DeliveriesOf(deliv, m, p) == {e \in deliv : e.material_id = m /\ e.project_id = p}

ProjectStockWithWarehouse(usage, deliv, m, p) ==
    SumDelivered({e \in deliv : e.material_id = m /\ e.project_id \in {p, 0}})
        - SumUsed(UsageOf(usage, m, p))

ProjectStockPositiveOnly(usage, deliv, m, p) ==
    SumDelivered(DeliveriesOf(deliv, m, p)) - SumPositive(UsageOf(usage, m, p))

(* Lines 2030-2041 and 2519-2524: delivered minus used, both for the pair. *)
ProjectStock(usage, deliv, m, p) ==
    SumDelivered(DeliveriesOf(deliv, m, p)) - SumUsed(UsageOf(usage, m, p))

(* SELECT AVG(daily_used) over GROUP BY DATE(usage_date): one group per day *)
(* that has any entry of the pair, its value the sum of the positive ones.  *)
AvgDailyUsed(usage, m, p) ==
    LET rows == UsageOf(usage, m, p)
        days == {e.usage_day : e \in rows}
    IN IF days = {} THEN Zero
       ELSE Rat(SumPositive(rows), Cardinality(days))

compute_project_threshold_plus4(usage, m, p) ==
    IF p = 0 THEN Zero
    ELSE LET avg_daily == AvgDailyUsed(usage, m, p)
             lead_days == DefaultsGet(NameKey(m), 90)
             effective_days == IF lead_days + 4 > 0 THEN lead_days + 4 ELSE 0
         IN Rat(avg_daily.n * effective_days * 11, avg_daily.d * 10)

compute_project_threshold(usage, m, p) ==
    IF p = 0 THEN Zero
    ELSE LET avg_daily == AvgDailyUsed(usage, m, p)
             lead_days == DefaultsGet(NameKey(m), 90)
             effective_days == IF lead_days + 3 > 0 THEN lead_days + 3 ELSE 0
         IN Rat(avg_daily.n * effective_days * 11, avg_daily.d * 10)

compute_project_avg_daily_per_day(usage, m, p) ==
    IF p = 0 THEN Zero ELSE AvgDailyUsed(usage, m, p)

(* Lines 349-368: total of the positive quantities over the number of      *)
(* positive entries of the pair, whatever their dates.                     *)
compute_project_avg_daily(usage, m, p) ==
    IF p = 0 THEN Zero
    ELSE LET rows == UsageOf(usage, m, p)
             num_entries == Cardinality({e \in rows : e.quantity_used > 0})
         IN IF num_entries > 0 THEN Rat(SumPositive(rows), num_entries) ELSE Zero

SuggestedQty(usage, m, p, default_lead) ==
    LET lead_days == DefaultsGet(NameKey(m), default_lead)
        cover == IF lead_days + 4 > 0 THEN lead_days + 4 ELSE 0
        avg_daily == compute_project_avg_daily(usage, m, p)
    IN Rat(avg_daily.n * cover, avg_daily.d)

(* ------------------------------ upsert --------------------------------- *)

ActiveOf(alerts, m, p) ==
    {a \in alerts : a.material_id = m /\ a.project_id = p /\ a.status = "active"}

AlertRow(id, m, p, type, stock, thr, qty, prio, ts) ==
    [id |-> id, material_id |-> m, project_id |-> p, alert_type |-> type,
     current_stock |-> stock, reorder_point |-> thr,
     suggested_order_quantity |-> qty, priority |-> prio, status |-> "active",
     created_at |-> ts, acknowledged_by |-> 0, acknowledged_at |-> NullTs]

UpsertKeepExisting(alerts, seq, m, p, type, stock, thr, qty, prio, ts) ==
    LET act == ActiveOf(alerts, m, p)
    IN IF act = {}
       THEN [alerts |-> alerts \cup {AlertRow(seq + 1, m, p, type, stock, thr, qty, prio, ts)},
             seq |-> seq + 1, rowid |-> seq + 1]
       ELSE [alerts |-> alerts, seq |-> seq,
             rowid |-> (CHOOSE a \in act : \A b \in act : a.id <= b.id).id]

(* INSERT OR REPLACE with id = (SELECT id ... status = 'active' LIMIT 1):   *)
(* a NULL id inserts under the next AUTOINCREMENT id, an existing id has    *)
(* its row deleted and re-inserted with the unnamed columns at their        *)
(* defaults.  The scan is in rowid order, so LIMIT 1 is the lowest id.      *)
UpsertDeleteInsert(alerts, seq, m, p, type, stock, thr, qty, prio, ts) ==
    [alerts |-> (alerts \ ActiveOf(alerts, m, p))
                   \cup {AlertRow(seq + 1, m, p, type, stock, thr, qty, prio, ts)},
     seq |-> seq + 1, rowid |-> seq + 1]

UpsertAnyStatus(alerts, seq, m, p, type, stock, thr, qty, prio, ts) ==
    LET act == {a \in alerts : a.material_id = m /\ a.project_id = p}
    IN IF act = {}
       THEN [alerts |-> alerts \cup {AlertRow(seq + 1, m, p, type, stock, thr, qty, prio, ts)},
             seq |-> seq + 1, rowid |-> seq + 1]
       ELSE LET old == CHOOSE a \in act : \A b \in act : a.id <= b.id
            IN [alerts |-> {a \in alerts : a.id # old.id}
                             \cup {AlertRow(old.id, m, p, type, stock, thr, qty, prio, ts)},
                seq |-> seq, rowid |-> old.id]

UpsertAlwaysInsert(alerts, seq, m, p, type, stock, thr, qty, prio, ts) ==
    [alerts |-> alerts \cup {AlertRow(seq + 1, m, p, type, stock, thr, qty, prio, ts)},
     seq |-> seq + 1, rowid |-> seq + 1]

Upsert(alerts, seq, m, p, type, stock, thr, qty, prio, ts) ==
    LET act == ActiveOf(alerts, m, p)
    IN IF act = {}
       THEN [alerts |-> alerts \cup {AlertRow(seq + 1, m, p, type, stock, thr, qty, prio, ts)},
             seq |-> seq + 1, rowid |-> seq + 1]
       ELSE LET old == CHOOSE a \in act : \A b \in act : a.id <= b.id
            IN [alerts |-> {a \in alerts : a.id # old.id}
                             \cup {AlertRow(old.id, m, p, type, stock, thr, qty, prio, ts)},
                seq |-> seq, rowid |-> old.id]

(* ------------------------------- Init ---------------------------------- *)

(* A thread that is not inside a handler or a sweep. *)
Idle == [pc |-> "idle"]

InventoryRow(id, stock) ==
    [id |-> id, current_stock |-> stock, reserved_stock |-> 0, reorder_point |-> Zero]

Init ==
    /\ projects = {}
    /\ projectSeq = 1
    /\ material_usage = {}
    /\ usageSeq = 0
    /\ material_deliveries = {}
    /\ deliverySeq = 0
    /\ inventory = [m \in Materials |-> InventoryRow(m, 0)]
    /\ inventorySeq = Len(MaterialNames)
    /\ reorder_alerts = {}
    /\ alertSeq = 0
    /\ today = 0
    /\ clock = 0
    /\ logger = Idle
    /\ monitor = Idle
    /\ resp = [op |-> "none", code |-> 0, rid |-> 0]

(* --------------------------- logUsage ---------------------------------- *)

Respond(op, code, rid) == resp' = [op |-> op, code |-> code, rid |-> rid]

UsageRow(id, pid, mid, q, day) ==
    [id |-> id, project_id |-> pid, material_id |-> mid, quantity_used |-> q,
     usage_day |-> day]

(* int(x) of Python: raises ValueError on a string that is not a number. *)
IntRaises(x) == x = BadPid

(* Lines 2005-2017: the warehouse counter is decremented only when the     *)
(* material has at least one delivery, for any project or none.            *)
InventoryAfterUsageUnguarded(inv, deliv, mid, q) ==
    IF mid \in DOMAIN inv
    THEN [inv EXCEPT ![mid].current_stock = @ - q]
    ELSE inv

InventoryAfterUsage(inv, deliv, mid, q) ==
    IF {d \in deliv : d.material_id = mid} # {} /\ mid \in DOMAIN inv
    THEN [inv EXCEPT ![mid].current_stock = @ - q]
    ELSE inv

(* Lines 2023-2029: the inline evaluation runs only for a pair that has a  *)
(* delivery of its own.                                                    *)
InlineGateAnyProject(deliv, mid, pid) == {d \in deliv : d.material_id = mid} # {}

InlineGate(deliv, mid, pid) == DeliveriesOf(deliv, mid, pid) # {}

(* Lines 2029-2081: the evaluation after the committed usage entry.  The   *)
(* result names the alert table, its id counter, the cursor's lastrowid    *)
(* (0 when no alert row was written) and whether an exception left the try *)
(* block.                                                                  *)
InlineNoChange(alerts, seq) ==
    [alerts |-> alerts, seq |-> seq, rowid |-> 0, raised |-> FALSE]

InlineEvaluate(usage, deliv, alerts, seq, mid, pid, ts) ==
    IF ~InlineGate(deliv, mid, pid) THEN InlineNoChange(alerts, seq)
    ELSE LET project_current_stock == ProjectStock(usage, deliv, mid, pid)
         IN IF IntRaises(mid) \/ IntRaises(pid)
            THEN [alerts |-> alerts, seq |-> seq, rowid |-> 0, raised |-> TRUE]
            ELSE LET threshold == compute_project_threshold(usage, mid, pid)
                 IN IF IntLess(project_current_stock, threshold) /\ RatPositive(threshold)
                    THEN LET u == Upsert(alerts, seq, mid, pid, "low_stock",
                                         project_current_stock, threshold,
                                         SuggestedQty(usage, mid, pid, 90),
                                         IF project_current_stock <= 0 THEN "high" ELSE "medium",
                                         ts)
                         IN [alerts |-> u.alerts, seq |-> u.seq, rowid |-> u.rowid,
                             raised |-> FALSE]
                    ELSE InlineNoChange(alerts, seq)

LogUsageBody(pid, mid, q, by) ==
    /\ usageSeq < MaxUsage
    /\ clock < MaxClock
    /\ LET usage1 == material_usage \cup {UsageRow(usageSeq + 1, pid, mid, q, today)}
           ts == [day |-> today, clock |-> clock + 1]
           ev == InlineEvaluate(usage1, material_deliveries, reorder_alerts, alertSeq,
                                mid, pid, ts)
       IN /\ material_usage' = usage1
          /\ usageSeq' = usageSeq + 1
          /\ inventory' = InventoryAfterUsage(inventory, material_deliveries, mid, q)
          /\ reorder_alerts' = ev.alerts
          /\ alertSeq' = ev.seq
          /\ clock' = IF ev.rowid # 0 THEN clock + 1 ELSE clock
          /\ IF ev.raised
             THEN Respond("logUsage", 500, 0)
             ELSE Respond("logUsage", 200, IF ev.rowid # 0 THEN ev.rowid ELSE usageSeq + 1)
    /\ UNCHANGED <<projects, projectSeq, material_deliveries, deliverySeq,
                   inventorySeq, today,
                   logger, monitor>>

Reject(op, code) ==
    /\ Respond(op, code, 0)
    /\ UNCHANGED <<projects, projectSeq, material_usage, usageSeq, material_deliveries,
                   deliverySeq, inventory, inventorySeq, reorder_alerts, alertSeq,
                   today, clock,
                   logger, monitor>>

log_material_usage_late_lookup(pid, mid, q, by) ==
    IF pid = 0 \/ mid = 0 \/ q = 0 \/ by = 0 THEN Reject("logUsage", 400)
    ELSE IF mid \notin Materials
    THEN /\ usageSeq < MaxUsage
         /\ material_usage' = material_usage \cup {UsageRow(usageSeq + 1, pid, mid, q, today)}
         /\ usageSeq' = usageSeq + 1
         /\ Respond("logUsage", 404, 0)
         /\ UNCHANGED <<projects, projectSeq, material_deliveries, deliverySeq, inventory,
                        inventorySeq, reorder_alerts, alertSeq, today, clock,
                        logger, monitor>>
    ELSE LogUsageBody(pid, mid, q, by)

log_material_usage(pid, mid, q, by) ==
    IF pid = 0 \/ mid = 0 \/ q = 0 \/ by = 0 THEN Reject("logUsage", 400)
    ELSE IF mid \notin Materials THEN Reject("logUsage", 404)
    ELSE LogUsageBody(pid, mid, q, by)

(* --------------------------- logDelivery ------------------------------- *)

DeliveryRow(id, mid, pid, q) ==
    [id |-> id, material_id |-> mid, project_id |-> pid, quantity_delivered |-> q]

log_material_delivery(mid, pid, q, by) ==
    IF mid = 0 \/ q = 0 \/ by = 0 THEN Reject("logDelivery", 400)
    ELSE /\ deliverySeq < MaxDeliveries
         /\ material_deliveries' =
                material_deliveries \cup {DeliveryRow(deliverySeq + 1, mid, pid, q)}
         /\ deliverySeq' = deliverySeq + 1
         /\ IF mid \in DOMAIN inventory
            THEN /\ inventory' = [inventory EXCEPT ![mid].current_stock = @ + q]
                 /\ inventorySeq' = inventorySeq
                 /\ Respond("logDelivery", 200, deliverySeq + 1)
            ELSE /\ inventory' = [k \in DOMAIN inventory \cup {mid} |->
                                    IF k = mid THEN InventoryRow(inventorySeq + 1, q)
                                    ELSE inventory[k]]
                 /\ inventorySeq' = inventorySeq + 1
                 /\ Respond("logDelivery", 200, inventorySeq + 1)
         /\ UNCHANGED <<projects, projectSeq, material_usage, usageSeq, reorder_alerts,
                        alertSeq, today, clock,
                        logger, monitor>>

(* --------------------------- acknowledge ------------------------------- *)

acknowledge_alert(alert_id, acknowledged_by) ==
    IF acknowledged_by = 0 THEN Reject("acknowledge", 400)
    ELSE /\ clock < MaxClock
         /\ reorder_alerts' =
                {IF a.id = alert_id
                 THEN [a EXCEPT !.status = "acknowledged",
                                !.acknowledged_by = acknowledged_by,
                                !.acknowledged_at = [day |-> today, clock |-> clock + 1]]
                 ELSE a : a \in reorder_alerts}
         /\ clock' = IF \E a \in reorder_alerts : a.id = alert_id THEN clock + 1 ELSE clock
         /\ Respond("acknowledge", 200, 0)
         /\ UNCHANGED <<projects, projectSeq, material_usage, usageSeq, material_deliveries,
                        deliverySeq, inventory, inventorySeq, alertSeq, today,
                        logger, monitor>>

(* ------------------------ listActive (GET alerts) ---------------------- *)

(* ORDER BY CASE ra.priority ... END, ra.created_at DESC. *)
PriorityRank(priority) ==
    CASE priority = "critical" -> 1
      [] priority = "high" -> 2
      [] priority = "medium" -> 3
      [] OTHER -> 4

(* created_at holds datetime.now().isoformat(): text order is time order.  *)
TsLater(t1, t2) == t1.day > t2.day \/ (t1.day = t2.day /\ t1.clock > t2.clock)

RowBefore(a, b) ==
    \/ PriorityRank(a.priority) < PriorityRank(b.priority)
    \/ /\ PriorityRank(a.priority) = PriorityRank(b.priority)
       /\ ~TsLater(b.created_at, a.created_at)

(* The orders in which the query may return the rows: rows equal under the *)
(* ORDER BY terms come in any order.                                       *)
Orderings(rows) ==
    {s \in [1..Cardinality(rows) -> rows] :
        /\ \A a \in rows : \E i \in DOMAIN s : s[i] = a
        /\ \A i, j \in DOMAIN s : i < j => RowBefore(s[i], s[j])}

OrderingsByRecencyOnly(rows) ==
    {s \in [1..Cardinality(rows) -> rows] :
        /\ \A a \in rows : \E i \in DOMAIN s : s[i] = a
        /\ \A i, j \in DOMAIN s : i < j => ~TsLater(s[j].created_at, s[i].created_at)}

(* Lines 2211-2240: the dict built for one row; a row with a project has   *)
(* its suggested quantity recomputed from the usage ledger.                *)
AlertViewStored(a, usage) ==
    [id |-> a.id, alert_type |-> a.alert_type, current_stock |-> a.current_stock,
     reorder_point |-> a.reorder_point,
     suggested_order_quantity |-> a.suggested_order_quantity,
     priority |-> a.priority, created_at |-> a.created_at,
     material_name |-> MaterialNames[a.material_id], project_id |-> a.project_id]

AlertView(a, usage) ==
    [id |-> a.id, alert_type |-> a.alert_type, current_stock |-> a.current_stock,
     reorder_point |-> a.reorder_point,
     suggested_order_quantity |->
        IF a.project_id # 0
        THEN SuggestedQty(usage, a.material_id, a.project_id, 90)
        ELSE a.suggested_order_quantity,
     priority |-> a.priority, created_at |-> a.created_at,
     material_name |-> MaterialNames[a.material_id], project_id |-> a.project_id]

get_reorder_alerts_by_recency(project_id) ==
    LET rows == {a \in reorder_alerts :
                    /\ a.status = "active"
                    /\ a.material_id \in Materials
                    /\ project_id # 0 => a.project_id = project_id}
    IN /\ \E s \in OrderingsByRecencyOnly(rows) :
            resp' = [op |-> "listActive", code |-> 200, rid |-> 0, filter |-> project_id,
                     body |-> [i \in DOMAIN s |-> AlertView(s[i], material_usage)]]
       /\ UNCHANGED <<projects, projectSeq, material_usage, usageSeq, material_deliveries,
                      deliverySeq, inventory, inventorySeq, reorder_alerts, alertSeq,
                      today, clock,
                      logger, monitor>>

(* project_id = 0 stands for a request without the project_id argument.    *)
get_reorder_alerts(project_id) ==
    LET rows == {a \in reorder_alerts :
                    /\ a.status = "active"
                    /\ a.material_id \in Materials
                    /\ project_id # 0 => a.project_id = project_id}
    IN /\ \E s \in Orderings(rows) :
            resp' = [op |-> "listActive", code |-> 200, rid |-> 0, filter |-> project_id,
                     body |-> [i \in DOMAIN s |-> AlertView(s[i], material_usage)]]
       /\ UNCHANGED <<projects, projectSeq, material_usage, usageSeq, material_deliveries,
                      deliverySeq, inventory, inventorySeq, reorder_alerts, alertSeq,
                      today, clock,
                      logger, monitor>>

(* ------------------- reserveForForecast (create_project) --------------- *)

ForecastKeys == <<"steel", "conductor", "transformers", "earthwire",
                  "foundation", "reactors", "tower">>

(* material_mapping maps the i-th forecast key to the material named       *)
(* MaterialNames[i]; the seed gives that material the id i.                *)
MaterialIdByName(name) ==
    IF \E i \in Materials : MaterialNames[i] = name
    THEN CHOOSE i \in Materials : MaterialNames[i] = name
    ELSE 0

RECURSIVE ReserveNonZero(_, _, _, _)
ReserveNonZero(st, forecasts, project_id, i) ==
    IF i > Len(ForecastKeys) THEN st
    ELSE LET forecast_value == forecasts[i]
             material_id == MaterialIdByName(MaterialNames[i])
         IN IF forecast_value # 0 /\ material_id # 0
            THEN ReserveNonZero(
                   [inv |-> IF material_id \in DOMAIN st.inv
                            THEN [st.inv EXCEPT ![material_id].reserved_stock = @ + forecast_value]
                            ELSE st.inv,
                    usage |-> st.usage \cup
                        {UsageRow(st.seq + 1, project_id, material_id, -forecast_value, today)},
                    seq |-> st.seq + 1],
                   forecasts, project_id, i + 1)
            ELSE ReserveNonZero(st, forecasts, project_id, i + 1)

(* Lines 1025-1051, one iteration per forecast key, in dict order.         *)
RECURSIVE Reserve(_, _, _, _)
Reserve(st, forecasts, project_id, i) ==
    IF i > Len(ForecastKeys) THEN st
    ELSE LET forecast_value == forecasts[i]
             material_id == MaterialIdByName(MaterialNames[i])
         IN IF forecast_value > 0 /\ material_id # 0
            THEN Reserve(
                   [inv |-> IF material_id \in DOMAIN st.inv
                            THEN [st.inv EXCEPT ![material_id].reserved_stock = @ + forecast_value]
                            ELSE st.inv,
                    usage |-> st.usage \cup
                        {UsageRow(st.seq + 1, project_id, material_id, -forecast_value, today)},
                    seq |-> st.seq + 1],
                   forecasts, project_id, i + 1)
            ELSE Reserve(st, forecasts, project_id, i + 1)

create_project(forecasts) ==
    /\ projectSeq < MaxProjectId
    /\ LET project_id == projectSeq + 1
           st == Reserve([inv |-> inventory, usage |-> material_usage, seq |-> usageSeq],
                         forecasts, project_id, 1)
       IN /\ st.seq <= MaxUsage
          /\ projects' = projects \cup {project_id}
          /\ projectSeq' = project_id
          /\ inventory' = st.inv
          /\ material_usage' = st.usage
          /\ usageSeq' = st.seq
          /\ Respond("createProject", 201, project_id)
    /\ UNCHANGED <<material_deliveries, deliverySeq, inventorySeq, reorder_alerts,
                   alertSeq, today, clock,
                   logger, monitor>>

(* ---------------------------- delete_project --------------------------- *)

delete_project(project_id) ==
    IF project_id \notin projects THEN Reject("deleteProject", 404)
    ELSE /\ projects' = projects \ {project_id}
         /\ Respond("deleteProject", 200, project_id)
         /\ UNCHANGED <<projectSeq, material_usage, usageSeq, material_deliveries,
                        deliverySeq, inventory, inventorySeq, reorder_alerts, alertSeq,
                        today, clock,
                        logger, monitor>>

(* ---------------------------- periodic sweep --------------------------- *)

SUPPLIER_DEFAULT_LEAD == 7

(* calculate_reorder_points, one material: the mean over the days of the   *)
(* trailing 30 days of the day's summed usage (negative entries included,  *)
(* all projects), times lead time plus three days.  No handler inserts a   *)
(* supplier, so the lead time is the default.                              *)
ReorderPointOf(usage, inv, m, day) ==
    LET rows == {e \in usage : e.material_id = m /\ e.usage_day >= day - 30}
        days == {e.usage_day : e \in rows}
        total == SumUsed(rows)
    IN IF days # {} /\ total > 0
       THEN Rat(total * SUPPLIER_DEFAULT_LEAD + total * 3, Cardinality(days))
       ELSE inv[m].reorder_point

calculate_reorder_points(usage, inv, day) ==
    [m \in DOMAIN inv |->
        IF m \in Materials
        THEN [inv[m] EXCEPT !.reorder_point = ReorderPointOf(usage, inv, m, day)]
        ELSE inv[m]]

(* Lines 2513-2517: the sweep skips a pair with no delivery of its own.    *)
SweepGate(deliv, m, p) == DeliveriesOf(deliv, m, p) # {}

(* Lines 2526-2537. *)
RecentActivity(usage, inv, m, p, day) ==
    \/ {e \in UsageOf(usage, m, p) : e.usage_day >= day - 60 /\ e.quantity_used > 0} # {}
    \/ (m \in DOMAIN inv /\ inv[m].reserved_stock > 0)

SweepPairAutoResolve(st, usage, deliv, inv, m, p, day) ==
    IF ~SweepGate(deliv, m, p) \/ ~RecentActivity(usage, inv, m, p, day) THEN st
    ELSE LET project_current_stock == ProjectStock(usage, deliv, m, p)
             threshold == compute_project_threshold(usage, m, p)
         IN IF ~RatPositive(threshold) THEN st
            ELSE IF IntLess(project_current_stock, threshold)
            THEN LET u == Upsert(st.alerts, st.seq, m, p,
                            IF project_current_stock <= 0 THEN "stockout" ELSE "low_stock",
                            project_current_stock, threshold,
                            SuggestedQty(usage, m, p, 75),
                            IF project_current_stock <= 0 THEN "critical" ELSE "high",
                            [day |-> day, clock |-> st.clock + 1])
                 IN [alerts |-> u.alerts, seq |-> u.seq, clock |-> st.clock + 1]
            ELSE [st EXCEPT !.alerts =
                    {IF a \in ActiveOf(st.alerts, m, p)
                     THEN [a EXCEPT !.status = "resolved"] ELSE a : a \in st.alerts}]

SweepPairWarehouseStock(st, usage, deliv, inv, m, p, day) ==
    IF ~SweepGate(deliv, m, p) \/ ~RecentActivity(usage, inv, m, p, day) THEN st
    ELSE LET project_current_stock == inv[m].current_stock
             threshold == compute_project_threshold(usage, m, p)
         IN IF ~RatPositive(threshold) \/ ~IntLess(project_current_stock, threshold) THEN st
            ELSE LET u == Upsert(st.alerts, st.seq, m, p,
                            IF project_current_stock <= 0 THEN "stockout" ELSE "low_stock",
                            project_current_stock, threshold,
                            SuggestedQty(usage, m, p, 75),
                            IF project_current_stock <= 0 THEN "critical" ELSE "high",
                            [day |-> day, clock |-> st.clock + 1])
                 IN [alerts |-> u.alerts, seq |-> u.seq, clock |-> st.clock + 1]

SweepPairAnyStock(st, usage, deliv, inv, m, p, day) ==
    IF ~SweepGate(deliv, m, p) \/ ~RecentActivity(usage, inv, m, p, day) THEN st
    ELSE LET project_current_stock == ProjectStock(usage, deliv, m, p)
             threshold == compute_project_threshold(usage, m, p)
         IN IF ~RatPositive(threshold) THEN st
            ELSE LET u == Upsert(st.alerts, st.seq, m, p,
                            IF project_current_stock <= 0 THEN "stockout" ELSE "low_stock",
                            project_current_stock, threshold,
                            SuggestedQty(usage, m, p, 75),
                            IF project_current_stock <= 0 THEN "critical" ELSE "high",
                            [day |-> day, clock |-> st.clock + 1])
                 IN [alerts |-> u.alerts, seq |-> u.seq, clock |-> st.clock + 1]

SweepPairLoggingNames(st, usage, deliv, inv, m, p, day) ==
    IF ~SweepGate(deliv, m, p) \/ ~RecentActivity(usage, inv, m, p, day) THEN st
    ELSE LET project_current_stock == ProjectStock(usage, deliv, m, p)
             threshold == compute_project_threshold(usage, m, p)
         IN IF ~RatPositive(threshold) \/ ~IntLess(project_current_stock, threshold) THEN st
            ELSE LET u == Upsert(st.alerts, st.seq, m, p, "low_stock",
                            project_current_stock, threshold,
                            SuggestedQty(usage, m, p, 75),
                            IF project_current_stock <= 0 THEN "high" ELSE "medium",
                            [day |-> day, clock |-> st.clock + 1])
                 IN [alerts |-> u.alerts, seq |-> u.seq, clock |-> st.clock + 1]

(* Lines 2510-2579, one (material, project) iteration; st carries the      *)
(* alert table, its id counter and the clock.                              *)
SweepPair(st, usage, deliv, inv, m, p, day) ==
    IF ~SweepGate(deliv, m, p) THEN st
    ELSE LET project_current_stock == ProjectStock(usage, deliv, m, p)
         IN IF ~RecentActivity(usage, inv, m, p, day) THEN st
            ELSE LET threshold == compute_project_threshold(usage, m, p)
                 IN IF ~RatPositive(threshold) THEN st
                    ELSE IF IntLess(project_current_stock, threshold)
                    THEN LET u == Upsert(st.alerts, st.seq, m, p,
                                    IF project_current_stock <= 0 THEN "stockout" ELSE "low_stock",
                                    project_current_stock, threshold,
                                    SuggestedQty(usage, m, p, 75),
                                    IF project_current_stock <= 0 THEN "critical" ELSE "high",
                                    [day |-> day, clock |-> st.clock + 1])
                         IN [alerts |-> u.alerts, seq |-> u.seq, clock |-> st.clock + 1]
                    ELSE st

(* Lines 2497-2508: the projects of the projects table that have a usage   *)
(* or a delivery entry for the material.                                   *)
ProjectRows(projs, usage, deliv, m) ==
    {p \in projs : UsageOf(usage, m, p) # {} \/ DeliveriesOf(deliv, m, p) # {}}

RECURSIVE SweepProjects(_, _, _, _, _, _, _)
SweepProjects(st, usage, deliv, inv, m, ps, day) ==
    IF ps = {} THEN st
    ELSE LET p == CHOOSE x \in ps : \A y \in ps : x <= y
         IN SweepProjects(SweepPair(st, usage, deliv, inv, m, p, day),
                          usage, deliv, inv, m, ps \ {p}, day)

RECURSIVE SweepMaterials(_, _, _, _, _, _, _)
SweepMaterials(st, projs, usage, deliv, inv, m, day) ==
    IF m > Len(MaterialNames) THEN st
    ELSE SweepMaterials(
            SweepProjects(st, usage, deliv, inv, m, ProjectRows(projs, usage, deliv, m), day),
            projs, usage, deliv, inv, m + 1, day)

check_inventory_alerts(alerts, seq, clk, projs, usage, deliv, inv, day) ==
    SweepMaterials([alerts |-> alerts, seq |-> seq, clock |-> clk],
                   projs, usage, deliv, inv, 1, day)

(* One iteration of inventory_monitoring_task. *)
Sweep ==
    /\ LET inv1 == calculate_reorder_points(material_usage, inventory, today)
           st == check_inventory_alerts(reorder_alerts, alertSeq, clock, projects,
                                        material_usage, material_deliveries, inv1, today)
       IN /\ st.clock <= MaxClock
          /\ inventory' = inv1
          /\ reorder_alerts' = st.alerts
          /\ alertSeq' = st.seq
          /\ clock' = st.clock
    /\ Respond("sweep", 0, 0)
    /\ UNCHANGED <<projects, projectSeq, material_usage, usageSeq, material_deliveries,
                   deliverySeq, inventorySeq, today,
                   logger, monitor>>

(* ------------------------------- time ---------------------------------- *)

DayPasses(j) ==
    /\ today + j <= MaxDay
    /\ today' = today + j
    /\ UNCHANGED <<projects, projectSeq, material_usage, usageSeq, material_deliveries,
                   deliverySeq, inventory, inventorySeq, reorder_alerts, alertSeq, clock,
                   resp,
                   logger, monitor>>

(* ---------------------------- specification ---------------------------- *)

(* The forecast of one material kind is f, the others are 0. *)
Forecasts(i, f) == [k \in 1..Len(ForecastKeys) |-> IF k = i THEN f ELSE 0]

LogUsage == \E r \in UsageRequests : log_material_usage(r[1], r[2], r[3], r[4])

LogDelivery == \E r \in DeliveryRequests : log_material_delivery(r[1], r[2], r[3], r[4])

Acknowledge == \E id \in 1..(alertSeq + 1), by \in UserIds : acknowledge_alert(id, by)

ReserveForForecast == \E i \in ForecastKinds, f \in ForecastInputs :
                create_project(Forecasts(i, f))

DeleteProject == \E p \in 2..MaxProjectId : delete_project(p)

Tick == \E j \in DayJumps : DayPasses(j)

Next == LogUsage \/ LogDelivery \/ Acknowledge \/ ReserveForForecast \/ DeleteProject
        \/ Sweep \/ Tick

Spec == Init /\ [][Next]_vars

(* ------------------------- ledger scenarios ---------------------------- *)
(* A second specification starts from the ledgers that one project leaves   *)
(* behind: project 2 is created on day 0 with a reservation of resv for     *)
(* material m (none when resv = 0), k usage entries of q each are logged on *)
(* each of n consecutive days from day `first` on, a delivery of d for the  *)
(* pair (none when d = 0) arrives after the last usage entry, and `age`     *)
(* days pass.  Up to the delivery the pair has none, so no evaluation has   *)
(* written an alert and no usage has touched the warehouse counter.         *)

MaxScenarioDays == 20

MaxEntriesPerDay == 2

ScenarioMaterials == {1, 2}

ScenarioQtys == {10, 50}

ScenarioReservations == {0, 20}

ScenarioDeliveries == {0, 1000, 100000}

ScenarioAges == {0, 61}

ScenarioUsage(m, n, q, k, resv, first) ==
    LET base == IF resv > 0 THEN 1 ELSE 0
    IN (IF resv > 0 THEN {UsageRow(1, 2, m, -resv, 0)} ELSE {})
       \cup {UsageRow(base + (i - 1) * k + j, 2, m, q, first + i - 1) :
                i \in 1..n, j \in 1..k}

ScenarioInit(m, n, q, k, resv, first, d, age) ==
    /\ projects = {2}
    /\ projectSeq = 2
    /\ material_usage = ScenarioUsage(m, n, q, k, resv, first)
    /\ usageSeq = n * k + (IF resv > 0 THEN 1 ELSE 0)
    /\ material_deliveries = IF d > 0 THEN {DeliveryRow(1, m, 2, d)} ELSE {}
    /\ deliverySeq = IF d > 0 THEN 1 ELSE 0
    /\ inventory = [x \in Materials |->
                      IF x = m
                      THEN [InventoryRow(x, d) EXCEPT !.reserved_stock = resv]
                      ELSE InventoryRow(x, 0)]
    /\ inventorySeq = Len(MaterialNames)
    /\ reorder_alerts = {}
    /\ alertSeq = 0
    /\ today = (IF n > 0 THEN first + n - 1 ELSE 0) + age
    /\ clock = 0
    /\ logger = Idle
    /\ monitor = Idle
    /\ resp = IF d > 0 THEN [op |-> "logDelivery", code |-> 200, rid |-> 1]
              ELSE IF n > 0 THEN [op |-> "logUsage", code |-> 200, rid |-> usageSeq]
              ELSE [op |-> "createProject", code |-> 201, rid |-> 2]

InitScenario ==
    \E m \in ScenarioMaterials, n \in 0..MaxScenarioDays, q \in ScenarioQtys,
       k \in 1..MaxEntriesPerDay, resv \in ScenarioReservations, first \in {0, 1},
       d \in ScenarioDeliveries, age \in ScenarioAges :
        ScenarioInit(m, n, q, k, resv, first, d, age)

NextScenario == Sweep \/ Acknowledge

SpecScenario == InitScenario /\ [][NextScenario]_vars

(* --------------------------- site scenarios ---------------------------- *)
(* A third specification starts from two projects (ids 2 and 3, created     *)
(* with no forecast) and the Steel deliveries logged for them: d2 for       *)
(* project 2 and d3 (none when 0) for project 3.  Its requests are all      *)
(* valid; usage, a further delivery, days, sweeps, acknowledgements and     *)
(* reads of the alert list follow in any order.                             *)

SiteDeliveries == {1, 50}

SiteUsageRequests == {<<2, 1, 1, 7>>, <<2, 1, 5, 7>>, <<3, 1, 1, 7>>, <<3, 1, 5, 7>>}

SiteDeliveryRequests == {<<1, 2, 1000, 7>>}

SiteFilters == {0, 2, 3}

SiteInit(d2, d3) ==
    /\ projects = {2, 3}
    /\ projectSeq = 3
    /\ material_usage = {}
    /\ usageSeq = 0
    /\ material_deliveries =
          {DeliveryRow(1, 1, 2, d2)} \cup (IF d3 > 0 THEN {DeliveryRow(2, 1, 3, d3)} ELSE {})
    /\ deliverySeq = IF d3 > 0 THEN 2 ELSE 1
    /\ inventory = [x \in Materials |-> InventoryRow(x, IF x = 1 THEN d2 + d3 ELSE 0)]
    /\ inventorySeq = Len(MaterialNames)
    /\ reorder_alerts = {}
    /\ alertSeq = 0
    /\ today = 0
    /\ clock = 0
    /\ logger = Idle
    /\ monitor = Idle
    /\ resp = [op |-> "logDelivery", code |-> 200, rid |-> deliverySeq]

InitSite == \E d2 \in SiteDeliveries, d3 \in SiteDeliveries \cup {0} : SiteInit(d2, d3)

LogUsageSite == \E r \in SiteUsageRequests : log_material_usage(r[1], r[2], r[3], r[4])

LogDeliverySite ==
    \E r \in SiteDeliveryRequests : log_material_delivery(r[1], r[2], r[3], r[4])

ListActive == \E p \in SiteFilters : get_reorder_alerts(p)

NextSite == LogUsageSite \/ LogDeliverySite \/ Acknowledge \/ ListActive \/ Sweep \/ Tick

SpecSite == InitSite /\ [][NextSite]_vars

(* --------------------------- pair scenarios ---------------------------- *)
(* A specification of one pair: project 2, created with a Steel forecast of *)
(* resv (none when 0), and one Steel delivery of d logged for it.  Usage    *)
(* requests, among them one with a negative quantity (the handler accepts   *)
(* any non-zero quantity), days, sweeps and acknowledgements follow.        *)

PairDeliveries == {1, 50, 1000}

PairReservations == {0, 20}

PairUsageRequests == {<<2, 1, 1, 7>>, <<2, 1, 5, 7>>, <<2, 1, -1, 7>>}

PairDeliveryRequests == {<<1, 2, 1000, 7>>}

InitPair ==
    \E resv \in PairReservations, d \in PairDeliveries :
        ScenarioInit(1, 0, 1, 1, resv, 0, d, 0)

LogUsagePair == \E r \in PairUsageRequests : log_material_usage(r[1], r[2], r[3], r[4])

LogDeliveryPair ==
    \E r \in PairDeliveryRequests : log_material_delivery(r[1], r[2], r[3], r[4])

NextPair == LogUsagePair \/ LogDeliveryPair \/ Acknowledge \/ Sweep \/ Tick

SpecPair == InitPair /\ [][NextPair]_vars

(* -------------------- the monitoring thread's loop --------------------- *)
(* inventory_monitoring_task with its sleeps, in units of 300 seconds.     *)
(* monitor.left is what remains of the current time.sleep, monitor.since   *)
(* the time since the loop's except handler was last entered (-1: never,   *)
(* or a sweep has started since), failed_reorder and failed_alerts the     *)
(* material at which calculate_reorder_points and check_inventory_alerts   *)
(* raised in the last iteration (0: none).  What raises there is outside   *)
(* the program (sqlite3.OperationalError on a locked or unreadable         *)
(* database), so it is a choice of the environment.                        *)

SweepInterval == 12

RetryCooldown == 1

FaultMaterials == {0, 1, 2}

MonitorLoop(pc, left, since, fr, fa) ==
    [pc |-> pc, left |-> left, since |-> since, failed_reorder |-> fr,
     failed_alerts |-> fa]

LedgerFrame ==
    UNCHANGED <<projects, projectSeq, material_usage, usageSeq, material_deliveries,
                deliverySeq, inventorySeq, today, logger>>

start_inventory_monitoring ==
    /\ monitor = Idle
    /\ monitor' = MonitorLoop("sleep", SweepInterval, -1, 0, 0)
    /\ LedgerFrame
    /\ UNCHANGED <<inventory, reorder_alerts, alertSeq, clock, resp>>

(* 300 seconds of a time.sleep call pass. *)
MonitorSleeps ==
    /\ monitor.pc \in {"sleep", "cooldown"}
    /\ monitor.left > 0
    /\ monitor' = [monitor EXCEPT !.left = @ - 1,
                                  !.since = IF @ >= 0 THEN @ + 1 ELSE @]
    /\ LedgerFrame
    /\ UNCHANGED <<inventory, reorder_alerts, alertSeq, clock, resp>>

(* time.sleep(300) has returned: the loop starts over with time.sleep(3600). *)
MonitorRetries ==
    /\ monitor.pc = "cooldown"
    /\ monitor.left = 0
    /\ monitor' = [monitor EXCEPT !.pc = "sleep", !.left = SweepInterval]
    /\ LedgerFrame
    /\ UNCHANGED <<inventory, reorder_alerts, alertSeq, clock, resp>>

(* calculate_reorder_points when it raises at material fr (0: it does     *)
(* not): the one commit is after the loop, so no UPDATE of the call is    *)
(* kept.                                                                   *)
ReorderPointsRun(usage, inv, day, fr) ==
    IF fr # 0 THEN inv ELSE calculate_reorder_points(usage, inv, day)

(* check_inventory_alerts when it raises at material fa (0: it does not): *)
(* the one commit is after the loop, so no upsert of the call is kept.     *)
AlertsRun(alerts, seq, clk, projs, usage, deliv, inv, day, fa) ==
    IF fa # 0 THEN [alerts |-> alerts, seq |-> seq, clock |-> clk]
    ELSE check_inventory_alerts(alerts, seq, clk, projs, usage, deliv, inv, day)

(* One iteration whose two calls return, each having caught and printed   *)
(* what it raised.                                                         *)
MonitorIterates(fr, fa) ==
    /\ monitor.pc = "sleep"
    /\ monitor.left = 0
    /\ LET inv1 == ReorderPointsRun(material_usage, inventory, today, fr)
           st == AlertsRun(reorder_alerts, alertSeq, clock, projects, material_usage,
                           material_deliveries, inv1, today, fa)
       IN /\ st.clock <= MaxClock
          /\ inventory' = inv1
          /\ reorder_alerts' = st.alerts
          /\ alertSeq' = st.seq
          /\ clock' = st.clock
    /\ monitor' = MonitorLoop("sleep", SweepInterval, -1, fr, fa)
    /\ Respond("sweep", 0, 0)
    /\ LedgerFrame

(* One iteration in which an exception leaves check_inventory_alerts: it  *)
(* raised at material fa and the print of its except handler raised in    *)
(* turn.  The loop's handler prints and sleeps 300 seconds.                *)
MonitorRaises(fr, fa) ==
    /\ monitor.pc = "sleep"
    /\ monitor.left = 0
    /\ fa # 0
    /\ inventory' = ReorderPointsRun(material_usage, inventory, today, fr)
    /\ monitor' = MonitorLoop("cooldown", RetryCooldown, 0, fr, fa)
    /\ Respond("sweep", 0, 0)
    /\ LedgerFrame
    /\ UNCHANGED <<reorder_alerts, alertSeq, clock>>

MonitorSweeps == \E fr \in FaultMaterials, fa \in FaultMaterials : MonitorIterates(fr, fa)

MonitorThrows == \E fr \in FaultMaterials, fa \in FaultMaterials : MonitorRaises(fr, fa)

NextMonitor ==
    \/ LogUsagePair
    \/ start_inventory_monitoring
    \/ MonitorSleeps
    \/ MonitorRetries
    \/ MonitorSweeps
    \/ MonitorThrows

SpecMonitor == InitPair /\ [][NextMonitor]_vars

(* ------------------- statement-level interleaving ---------------------- *)
(* A fourth specification runs log_material_usage (the logger) and one      *)
(* iteration of inventory_monitoring_task (the monitor) one store statement *)
(* at a time.  Each has its own connection in WAL mode: a SELECT outside a  *)
(* transaction reads the last committed state, the first INSERT, UPDATE or  *)
(* REPLACE opens a transaction that holds the write lock up to its commit,  *)
(* and a write of the other connection waits for the lock (busy_timeout).   *)
(* A write that is committed before the connection reads again is one step  *)
(* with its commit.  The monitor's alert rows are in reorder_alerts from    *)
(* the upsert on; the logger reads that table only in its own upsert,       *)
(* which waits for the monitor's commit.                                    *)

ConcUsageRequests == {<<2, 1, 1, 7>>, <<2, 1, 60, 7>>}

ConcDeliveries == {100, 1000}

MonitorHoldsWrite == monitor.pc # "idle" /\ monitor.wrote

ThreadFrame ==
    UNCHANGED <<projects, projectSeq, material_usage, usageSeq, material_deliveries,
                deliverySeq, inventory, inventorySeq, reorder_alerts, alertSeq,
                today, clock>>

(* Lines 1975-2019: validation, material lookup, INSERT of the entry,      *)
(* UPDATE of the warehouse counter, commit.                                *)
LoggerBegin(pid, mid, q, by) ==
    /\ logger = Idle
    /\ IF pid = 0 \/ mid = 0 \/ q = 0 \/ by = 0 THEN Reject("logUsage", 400)
       ELSE IF mid \notin Materials THEN Reject("logUsage", 404)
       ELSE /\ ~MonitorHoldsWrite
            /\ usageSeq < MaxUsage
            /\ material_usage' =
                  material_usage \cup {UsageRow(usageSeq + 1, pid, mid, q, today)}
            /\ usageSeq' = usageSeq + 1
            /\ inventory' = InventoryAfterUsage(inventory, material_deliveries, mid, q)
            /\ logger' = [pc |-> "gate", pid |-> pid, mid |-> mid, entry |-> usageSeq + 1,
                          delivered |-> 0, stock |-> 0, threshold |-> Zero, qty |-> Zero]
            /\ UNCHANGED <<projects, projectSeq, material_deliveries, deliverySeq,
                           inventorySeq, reorder_alerts, alertSeq, today, clock, resp,
                           monitor>>

LoggerFinish(code, rid) ==
    /\ logger' = Idle
    /\ Respond("logUsage", code, rid)
    /\ UNCHANGED monitor
    /\ ThreadFrame

LoggerGoto(next) ==
    /\ logger' = next
    /\ UNCHANGED <<resp, monitor>>
    /\ ThreadFrame

(* Lines 2023-2029. *)
LoggerGate ==
    /\ logger.pc = "gate"
    /\ IF InlineGate(material_deliveries, logger.mid, logger.pid)
       THEN LoggerGoto([logger EXCEPT !.pc = "delivered"])
       ELSE LoggerFinish(200, logger.entry)

(* Lines 2031-2035. *)
LoggerDelivered ==
    /\ logger.pc = "delivered"
    /\ LoggerGoto([logger EXCEPT
          !.pc = "used",
          !.delivered = SumDelivered(DeliveriesOf(material_deliveries, logger.mid, logger.pid))])

(* Lines 2036-2041. *)
LoggerUsed ==
    /\ logger.pc = "used"
    /\ LoggerGoto([logger EXCEPT
          !.pc = "threshold",
          !.stock = logger.delivered - SumUsed(UsageOf(material_usage, logger.mid, logger.pid))])

(* Lines 2043-2046. *)
LoggerThreshold ==
    /\ logger.pc = "threshold"
    /\ IF IntRaises(logger.mid) \/ IntRaises(logger.pid) THEN LoggerFinish(500, 0)
       ELSE LET threshold == compute_project_threshold(material_usage, logger.mid, logger.pid)
            IN IF IntLess(logger.stock, threshold) /\ RatPositive(threshold)
               THEN LoggerGoto([logger EXCEPT !.pc = "suggest", !.threshold = threshold])
               ELSE LoggerFinish(200, logger.entry)

(* Lines 2047-2059. *)
LoggerSuggest ==
    /\ logger.pc = "suggest"
    /\ LoggerGoto([logger EXCEPT
          !.pc = "upsert",
          !.qty = SuggestedQty(material_usage, logger.mid, logger.pid, 90)])

(* Lines 2062-2090: the upsert, its commit and the response. *)
LoggerUpsert ==
    /\ logger.pc = "upsert"
    /\ ~MonitorHoldsWrite
    /\ clock < MaxClock
    /\ LET u == Upsert(reorder_alerts, alertSeq, logger.mid, logger.pid, "low_stock",
                       logger.stock, logger.threshold, logger.qty,
                       IF logger.stock <= 0 THEN "high" ELSE "medium",
                       [day |-> today, clock |-> clock + 1])
       IN /\ reorder_alerts' = u.alerts
          /\ alertSeq' = u.seq
          /\ clock' = clock + 1
          /\ logger' = Idle
          /\ Respond("logUsage", 200, u.rowid)
    /\ UNCHANGED <<projects, projectSeq, material_usage, usageSeq, material_deliveries,
                   deliverySeq, inventory, inventorySeq, today, monitor>>

(* project_rows of one material, in ascending id order. *)
RECURSIVE ProjectList(_)
ProjectList(ps) ==
    IF ps = {} THEN <<>>
    ELSE LET p == CHOOSE x \in ps : \A y \in ps : x <= y
         IN <<p>> \o ProjectList(ps \ {p})

MonitorAt(pc, m, pending, wrote) ==
    [pc |-> pc, m |-> m, pending |-> pending, wrote |-> wrote,
     delivered |-> 0, stock |-> 0, threshold |-> Zero, qty |-> Zero]

(* `continue`, or the end of the loop body: on to the next project of the  *)
(* material, or to the next material's project query.                      *)
MonitorContinue(mon) ==
    IF Len(mon.pending) > 1
    THEN MonitorAt("gate", mon.m, Tail(mon.pending), mon.wrote)
    ELSE MonitorAt("projects", mon.m + 1, <<>>, mon.wrote)

MonitorGoto(next) ==
    /\ monitor' = next
    /\ UNCHANGED <<resp, logger>>
    /\ ThreadFrame

(* Lines 2587-2595 and 2482-2491: calculate_reorder_points, committed, and *)
(* the SELECT of the materials, a table no handler writes.                 *)
MonitorStart ==
    /\ monitor = Idle
    /\ inventory' = calculate_reorder_points(material_usage, inventory, today)
    /\ monitor' = MonitorAt("projects", 1, <<>>, FALSE)
    /\ UNCHANGED <<projects, projectSeq, material_usage, usageSeq, material_deliveries,
                   deliverySeq, inventorySeq, reorder_alerts, alertSeq, today, clock,
                   resp, logger>>

(* Lines 2497-2508, or the end of the loop over the materials. *)
MonitorProjects ==
    /\ monitor.pc = "projects"
    /\ IF monitor.m > Len(MaterialNames)
       THEN MonitorGoto([monitor EXCEPT !.pc = "commit"])
       ELSE LET rows == ProjectList(ProjectRows(projects, material_usage,
                                                material_deliveries, monitor.m))
            IN IF rows = <<>>
               THEN MonitorGoto(MonitorAt("projects", monitor.m + 1, <<>>, monitor.wrote))
               ELSE MonitorGoto(MonitorAt("gate", monitor.m, rows, monitor.wrote))

(* Lines 2513-2517. *)
MonitorGate ==
    /\ monitor.pc = "gate"
    /\ IF SweepGate(material_deliveries, monitor.m, Head(monitor.pending))
       THEN MonitorGoto([monitor EXCEPT !.pc = "delivered"])
       ELSE MonitorGoto(MonitorContinue(monitor))

(* Lines 2520-2521. *)
MonitorDelivered ==
    /\ monitor.pc = "delivered"
    /\ MonitorGoto([monitor EXCEPT
          !.pc = "used",
          !.delivered = SumDelivered(DeliveriesOf(material_deliveries, monitor.m,
                                                  Head(monitor.pending)))])

(* Lines 2522-2524. *)
MonitorUsed ==
    /\ monitor.pc = "used"
    /\ MonitorGoto([monitor EXCEPT
          !.pc = "recent",
          !.stock = monitor.delivered
                      - SumUsed(UsageOf(material_usage, monitor.m, Head(monitor.pending)))])

(* Lines 2526-2537. *)
MonitorRecent ==
    /\ monitor.pc = "recent"
    /\ IF RecentActivity(material_usage, inventory, monitor.m, Head(monitor.pending), today)
       THEN MonitorGoto([monitor EXCEPT !.pc = "threshold"])
       ELSE MonitorGoto(MonitorContinue(monitor))

(* Lines 2539-2544. *)
MonitorThreshold ==
    /\ monitor.pc = "threshold"
    /\ LET threshold == compute_project_threshold(material_usage, monitor.m,
                                                  Head(monitor.pending))
       IN IF RatPositive(threshold) /\ IntLess(monitor.stock, threshold)
          THEN MonitorGoto([monitor EXCEPT !.pc = "suggest", !.threshold = threshold])
          ELSE MonitorGoto(MonitorContinue(monitor))

(* Lines 2548-2556. *)
MonitorSuggest ==
    /\ monitor.pc = "suggest"
    /\ MonitorGoto([monitor EXCEPT
          !.pc = "upsert",
          !.qty = SuggestedQty(material_usage, monitor.m, Head(monitor.pending), 75)])

(* Lines 2558-2579: the upsert opens the monitor's transaction, or runs in *)
(* the one an earlier upsert of this sweep opened.                         *)
MonitorUpsert ==
    /\ monitor.pc = "upsert"
    /\ clock < MaxClock
    /\ LET u == Upsert(reorder_alerts, alertSeq, monitor.m, Head(monitor.pending),
                       IF monitor.stock <= 0 THEN "stockout" ELSE "low_stock",
                       monitor.stock, monitor.threshold, monitor.qty,
                       IF monitor.stock <= 0 THEN "critical" ELSE "high",
                       [day |-> today, clock |-> clock + 1])
       IN /\ reorder_alerts' = u.alerts
          /\ alertSeq' = u.seq
          /\ clock' = clock + 1
          /\ monitor' = MonitorContinue([monitor EXCEPT !.wrote = TRUE])
    /\ UNCHANGED <<projects, projectSeq, material_usage, usageSeq, material_deliveries,
                   deliverySeq, inventory, inventorySeq, today, resp, logger>>

(* Lines 2581-2582. *)
MonitorCommit ==
    /\ monitor.pc = "commit"
    /\ monitor' = Idle
    /\ Respond("sweep", 0, 0)
    /\ UNCHANGED logger
    /\ ThreadFrame

InitConcurrent ==
    \E n \in 0..1, d \in ConcDeliveries : ScenarioInit(1, n, 50, 1, 0, 0, d, 0)

LoggerStart == \E r \in ConcUsageRequests : LoggerBegin(r[1], r[2], r[3], r[4])

NextConcurrent ==
    \/ LoggerStart \/ LoggerGate \/ LoggerDelivered \/ LoggerUsed \/ LoggerThreshold
    \/ LoggerSuggest \/ LoggerUpsert
    \/ MonitorStart \/ MonitorProjects \/ MonitorGate \/ MonitorDelivered \/ MonitorUsed
    \/ MonitorRecent \/ MonitorThreshold \/ MonitorSuggest \/ MonitorUpsert
    \/ MonitorCommit

SpecConcurrent == InitConcurrent /\ [][NextConcurrent]_vars

(* ------------------------------ claims --------------------------------- *)

PairStock(m, p) == ProjectStock(material_usage, material_deliveries, m, p)

PairThreshold(m, p) == compute_project_threshold(material_usage, m, p)

MaterialDeliveries(m) == {d \in material_deliveries : d.material_id = m}

(* C1: under operations executed one at a time, every (material, project)   *)
(* pair has at most one alert row with status active.                       *)
C1_OneActivePerPair ==
    \A a \in reorder_alerts : \A b \in reorder_alerts :
        (/\ a.status = "active" /\ b.status = "active"
         /\ a.material_id = b.material_id /\ a.project_id = b.project_id) => a = b

(* An active alert that was written, and then written again by a later      *)
(* evaluation of the same pair, is still the only alert row.                *)
C1_Witness ==
    \E a \in reorder_alerts :
        a.status = "active" /\ a.created_at.clock >= 2 /\ alertSeq = 1

(* C2: a pair with no delivery recorded for that exact pair never gets an   *)
(* alert row, neither from logUsage's inline evaluation nor from the sweep, *)
(* whatever usage and reservation entries it has and whatever deliveries    *)
(* the same material has for other projects or for no project.              *)
C2_NoDeliveryNoAlert ==
    \A a \in reorder_alerts :
        DeliveriesOf(material_deliveries, a.material_id, a.project_id) # {}

(* logUsage has just evaluated the pair (1, 2), which has a reservation and *)
(* a positive usage entry but no delivery, while material 1 has a delivery  *)
(* with no project and one for another project.                             *)
C2_Witness ==
    /\ resp = [op |-> "logUsage", code |-> 200, rid |-> usageSeq]
    /\ \E e \in material_usage : e.id = usageSeq /\ e.material_id = 1 /\ e.project_id = 2
    /\ \E e \in UsageOf(material_usage, 1, 2) : e.quantity_used < 0
    /\ inventory[1].reserved_stock > 0
    /\ DeliveriesOf(material_deliveries, 1, 2) = {}
    /\ DeliveriesOf(material_deliveries, 1, 0) # {}
    /\ DeliveriesOf(material_deliveries, 1, BadPid) # {}

(* C3: acknowledge with an alert id that matches no alert row returns a     *)
(* not-found error and never reports success.                               *)
C3_AckUnknownIdNotFound ==
    [][\A id \in 1..(alertSeq + 1) : \A by \in UserIds \ {0} :
          (/\ ~(\E a \in reorder_alerts : a.id = id)
           /\ acknowledge_alert(id, by))
          => resp'.code = 404]_vars

(* C4: a second acknowledge of an acknowledged alert leaves the row's       *)
(* status, acknowledger and acknowledgement timestamp as they were, also    *)
(* when it names another acknowledger.                                      *)
C4_SecondAckNoOp ==
    [][\A a \in reorder_alerts : \A by \in UserIds \ {0} :
          (a.status = "acknowledged" /\ acknowledge_alert(a.id, by))
          => \E b \in reorder_alerts' :
                /\ b.id = a.id
                /\ b.status = a.status
                /\ b.acknowledged_by = a.acknowledged_by
                /\ b.acknowledged_at = a.acknowledged_at]_vars

C6_RejectedWritesNothing ==
    [][((LogUsage \/ LogDelivery) /\ resp'.code \in {400, 404})
          => UNCHANGED <<material_usage, usageSeq, material_deliveries, deliverySeq,
                         inventory, inventorySeq, reorder_alerts, alertSeq>>]_vars

(* A logUsage request was rejected for its unknown material id while the    *)
(* ledgers and the alert table held rows.                                   *)
C6_Witness ==
    /\ resp = [op |-> "logUsage", code |-> 404, rid |-> 0]
    /\ material_usage # {}
    /\ material_deliveries # {}
    /\ reorder_alerts # {}

(* C7: the warehouse-level current stock of a material with no delivery at  *)
(* all stays what it was at the start, 0, whatever usage and reservations   *)
(* are logged against it.                                                   *)
C7_UndeliveredStockUnchanged ==
    \A m \in DOMAIN inventory :
        MaterialDeliveries(m) = {} => inventory[m].current_stock = 0

(* Material 1 has no delivery, and both a reservation and a positive usage  *)
(* entry were logged against it.                                            *)
C7_Witness ==
    /\ MaterialDeliveries(1) = {}
    /\ \E e \in material_usage : e.material_id = 1 /\ e.quantity_used > 0
    /\ \E e \in material_usage : e.material_id = 1 /\ e.quantity_used < 0
    /\ inventory[1].reserved_stock > 0

(* C8: an active alert stays active, under the same id, through every step  *)
(* that is not an acknowledge of it, and a step after which the pair's      *)
(* stock is at or above its threshold leaves the whole row unchanged.       *)
C8_ActiveUntilAcknowledged ==
    [][\A a \in reorder_alerts :
          a.status = "active"
          => \/ a \in reorder_alerts'
             \/ \E by \in UserIds \ {0} : acknowledge_alert(a.id, by)
             \/ \E b \in reorder_alerts' :
                   /\ b.id = a.id
                   /\ b.status = "active"
                   /\ b.material_id = a.material_id
                   /\ b.project_id = a.project_id
                   /\ IntLess(PairStock(a.material_id, a.project_id)',
                              PairThreshold(a.material_id, a.project_id)')]_vars

(* The sweep has just run over a pair whose stock has recovered to at least *)
(* its positive threshold while its alert is active.                        *)
C8_Witness ==
    /\ resp.op = "sweep"
    /\ \E a \in reorder_alerts :
          /\ a.status = "active"
          /\ a.project_id \in projects
          /\ RatPositive(PairThreshold(a.material_id, a.project_id))
          /\ ~IntLess(PairStock(a.material_id, a.project_id),
                      PairThreshold(a.material_id, a.project_id))

(* C9: the daily average behind the threshold is the mean of the per-day    *)
(* positive-usage totals over only the days that have a positive usage      *)
(* entry; a day whose only entries are non-positive is not a zero day of    *)
(* the average.  Stated of the threshold every alert row records.           *)
PositiveDays(m, p) ==
    {e.usage_day : e \in {x \in UsageOf(material_usage, m, p) : x.quantity_used > 0}}

C9_AverageOverPositiveDays ==
    \A a \in reorder_alerts :
        LET days == PositiveDays(a.material_id, a.project_id)
            total == SumPositive(UsageOf(material_usage, a.material_id, a.project_id))
            lead == DefaultsGet(NameKey(a.material_id), 90)
        IN days # {} /\ a.reorder_point = Rat(total * (lead + 3) * 11, Cardinality(days) * 10)

(* C10: the threshold an evaluation records is the daily average times      *)
(* max(leadDays + 3, 0) times 1.10, leadDays being 90 for Conductor and 75  *)
(* for the other materials; for Steel with a usage of 50 on each of 20      *)
(* distinct days and nothing else it is 4290.                               *)
SteelScenario ==
    LET rows == UsageOf(material_usage, 1, 2)
    IN /\ Cardinality(rows) = 20
       /\ Cardinality({e.usage_day : e \in rows}) = 20
       /\ \A e \in rows : e.quantity_used = 50
       /\ DeliveriesOf(material_deliveries, 1, 2) = {DeliveryRow(1, 1, 2, 1000)}

C10_ThresholdFormula ==
    /\ \A a \in reorder_alerts :
          LET avg == AvgDailyUsed(material_usage, a.material_id, a.project_id)
              leadDays == IF MaterialNames[a.material_id] = "Conductor" THEN 90 ELSE 75
          IN a.reorder_point.n * avg.d * 10 = a.reorder_point.d * avg.n * (leadDays + 3) * 11
    /\ SteelScenario
          => \A a \in reorder_alerts :
                (a.material_id = 1 /\ a.project_id = 2)
                => a.reorder_point = [n |-> 4290, d |-> 1]

(* The sweep has evaluated the Steel scenario and recorded its threshold.   *)
C10_Witness ==
    /\ SteelScenario
    /\ resp.op = "sweep"
    /\ \E a \in reorder_alerts : a.material_id = 1 /\ a.reorder_point.n = 4290

(* C11: the suggested order quantity an evaluation stores is the sum of the *)
(* pair's positive usage quantities over the number of its positive usage   *)
(* entries, times max(leadDays + 4, 0); it does not depend on how the       *)
(* entries are spread over days, although the threshold does.               *)
LeadDaysOf(m) == IF MaterialNames[m] = "Conductor" THEN 90 ELSE 75

PositiveEntries(m, p) == {e \in UsageOf(material_usage, m, p) : e.quantity_used > 0}

OnOneDay(usage) == {[e EXCEPT !.usage_day = 0] : e \in usage}

C11_SuggestedPerEntry ==
    \A a \in reorder_alerts :
        LET m == a.material_id
            p == a.project_id
            entries == PositiveEntries(m, p)
            total == SumPositive(entries)
            cover == IF LeadDaysOf(m) + 4 > 0 THEN LeadDaysOf(m) + 4 ELSE 0
            days == {e.usage_day : e \in UsageOf(material_usage, m, p)}
        IN /\ entries # {}
           /\ a.suggested_order_quantity = Rat(total * cover, Cardinality(entries))
           /\ a.suggested_order_quantity = SuggestedQty(OnOneDay(material_usage), m, p, 75)
           /\ Cardinality(days) > 1
                 => a.reorder_point # compute_project_threshold(OnOneDay(material_usage), m, p)

(* A sweep stored an alert for a pair whose entries lie two to a day on     *)
(* several days.                                                            *)
C11_Witness ==
    /\ resp.op = "sweep"
    /\ \E a \in reorder_alerts :
          LET entries == PositiveEntries(a.material_id, a.project_id)
              days == {e.usage_day : e \in entries}
          IN Cardinality(days) > 1 /\ Cardinality(entries) = 2 * Cardinality(days)

(* C12: an alert written by the sweep has type stockout and priority        *)
(* critical when the pair's stock is <= 0, and type low_stock and priority  *)
(* high when it is positive and below the threshold; for Steel with a       *)
(* delivery of 1000 and a usage of 50 on each of 20 days it is stockout,    *)
(* critical, with suggested quantity 3950.  (In SpecScenario every alert    *)
(* row is written by the sweep.)                                            *)
C12_SweepClassification ==
    /\ \A a \in reorder_alerts :
          /\ a.current_stock = PairStock(a.material_id, a.project_id)
          /\ IntLess(a.current_stock, a.reorder_point)
          /\ a.current_stock <= 0
                => a.alert_type = "stockout" /\ a.priority = "critical"
          /\ a.current_stock > 0
                => a.alert_type = "low_stock" /\ a.priority = "high"
    /\ SteelScenario
          => \A a \in reorder_alerts :
                (a.material_id = 1 /\ a.project_id = 2)
                => /\ a.alert_type = "stockout"
                   /\ a.priority = "critical"
                   /\ a.suggested_order_quantity = [n |-> 3950, d |-> 1]

(* The sweep has written the alert of the Steel scenario. *)
C12_Witness ==
    /\ SteelScenario
    /\ resp.op = "sweep"
    /\ \E a \in reorder_alerts :
          a.material_id = 1 /\ a.project_id = 2 /\ a.status = "active" /\ a.current_stock = 0

(* The sweep has written an alert for a pair with stock left. *)
C12_WitnessLowStock ==
    /\ resp.op = "sweep"
    /\ \E a \in reorder_alerts : a.status = "active" /\ a.current_stock > 0

(* C13: an alert written by the inline evaluation of logUsage has type      *)
(* stockout and priority high when the pair's stock is <= 0, and type       *)
(* low_stock and priority medium otherwise.                                 *)
C13_InlineClassification ==
    [][LogUsageSite
          => \A a \in reorder_alerts' :
                a \notin reorder_alerts
                => IF a.current_stock <= 0
                   THEN a.alert_type = "stockout" /\ a.priority = "high"
                   ELSE a.alert_type = "low_stock" /\ a.priority = "medium"]_vars

(* C14: listActive returns exactly the alerts whose status is active, only  *)
(* those of the given project when a project filter is passed and never an  *)
(* acknowledged one, ordered critical, high, medium, then any other         *)
(* priority, and within one priority by creation time, most recent first.   *)
ListedRank(row) ==
    IF row.priority = "critical" THEN 1
    ELSE IF row.priority = "high" THEN 2
    ELSE IF row.priority = "medium" THEN 3
    ELSE 4

C14_ListActiveOrdered ==
    resp.op = "listActive"
    => LET body == resp.body
           expected == {a \in reorder_alerts :
                           /\ a.status = "active"
                           /\ resp.filter # 0 => a.project_id = resp.filter}
       IN /\ Len(body) = Cardinality(expected)
          /\ {body[i].id : i \in DOMAIN body} = {a.id : a \in expected}
          /\ \A i \in DOMAIN body : \A a \in reorder_alerts :
                a.id = body[i].id
                => /\ a.status # "acknowledged"
                   /\ body[i].priority = a.priority
                   /\ body[i].created_at = a.created_at
                   /\ body[i].project_id = a.project_id
          /\ \A i, j \in DOMAIN body :
                i < j
                => /\ ListedRank(body[i]) <= ListedRank(body[j])
                   /\ ListedRank(body[i]) = ListedRank(body[j])
                         => \/ body[i].created_at.day > body[j].created_at.day
                            \/ /\ body[i].created_at.day = body[j].created_at.day
                               /\ body[i].created_at.clock >= body[j].created_at.clock

(* An unfiltered read lists two alerts of different priorities, the older   *)
(* one first, while an acknowledged alert stays out of the list.            *)
C14_Witness ==
    /\ resp.op = "listActive"
    /\ resp.filter = 0
    /\ Len(resp.body) = 2
    /\ ListedRank(resp.body[1]) < ListedRank(resp.body[2])
    /\ resp.body[1].created_at.clock < resp.body[2].created_at.clock
    /\ \E a \in reorder_alerts : a.status = "acknowledged"

(* A read filtered by project leaves out the active alert of the other one. *)
C14_WitnessFiltered ==
    /\ resp.op = "listActive"
    /\ resp.filter = 2
    /\ Len(resp.body) = 1
    /\ \E a \in reorder_alerts : a.status = "active" /\ a.project_id = 3

(* Two alerts of one priority are listed, the more recent one first. *)
C14_WitnessSamePriority ==
    /\ resp.op = "listActive"
    /\ Len(resp.body) = 2
    /\ ListedRank(resp.body[1]) = ListedRank(resp.body[2])
    /\ resp.body[1].created_at.clock > resp.body[2].created_at.clock

(* C15: for every alert with a project that listActive returns, the         *)
(* suggested order quantity of the result is the per-entry average of the   *)
(* usage ledger as it is at the read, times max(leadDays + 4, 0), whatever  *)
(* the stored row holds; the read leaves the alert rows as they were.       *)
C15_ListRecomputesSuggestion ==
    [][ListActive
          => /\ reorder_alerts' = reorder_alerts
             /\ \A i \in DOMAIN resp'.body : \A a \in reorder_alerts :
                   (a.id = resp'.body[i].id /\ a.project_id # 0)
                   => LET entries == PositiveEntries(a.material_id, a.project_id)
                          cover == IF LeadDaysOf(a.material_id) + 4 > 0
                                   THEN LeadDaysOf(a.material_id) + 4 ELSE 0
                      IN resp'.body[i].suggested_order_quantity =
                            IF entries = {} THEN Zero
                            ELSE Rat(SumPositive(entries) * cover, Cardinality(entries))]_vars

(* A read returned a suggested quantity that differs from the stored one.   *)
C15_Witness ==
    /\ resp.op = "listActive"
    /\ \E i \in DOMAIN resp.body : \E a \in reorder_alerts :
          /\ a.id = resp.body[i].id
          /\ a.project_id # 0
          /\ a.suggested_order_quantity # resp.body[i].suggested_order_quantity

(* C16: a delivery logged with no project raises the material's warehouse   *)
(* current stock by its quantity, changes the per-project stock of no       *)
(* (material, project) pair and gives no pair the delivery that the         *)
(* evaluations require.                                                     *)
ProjectKeys == (1..MaxProjectId) \cup {BadPid}

WarehouseStock(inv, m) == IF m \in DOMAIN inv THEN inv[m].current_stock ELSE 0

C16_WarehouseDelivery ==
    [][\A r \in DeliveryRequests :
          (/\ r[2] = 0
           /\ log_material_delivery(r[1], r[2], r[3], r[4])
           /\ deliverySeq' = deliverySeq + 1)
          => /\ WarehouseStock(inventory', r[1]) = WarehouseStock(inventory, r[1]) + r[3]
             /\ \A m \in Materials \cup {GhostMid} : \A p \in ProjectKeys :
                   /\ PairStock(m, p)' = PairStock(m, p)
                   /\ InlineGate(material_deliveries', m, p)
                         = InlineGate(material_deliveries, m, p)
                   /\ SweepGate(material_deliveries', m, p)
                         = SweepGate(material_deliveries, m, p)]_vars

(* A delivery without a project has just been logged for Steel, which       *)
(* project 2 has used and for which it has no delivery of its own.          *)
C16_Witness ==
    /\ resp.op = "logDelivery"
    /\ resp.code = 200
    /\ \E d \in material_deliveries :
          d.id = deliverySeq /\ d.project_id = 0 /\ d.material_id = 1
    /\ UsageOf(material_usage, 1, 2) # {}
    /\ DeliveriesOf(material_deliveries, 1, 2) = {}
    /\ inventory[1].current_stock > 0

(* C17: reserveForForecast with a forecast q > 0 for a material raises the  *)
(* material's reserved stock by q and appends exactly one usage entry, of   *)
(* quantity -q, for the new project; the material's current stock, the      *)
(* delivery ledger and the alert rows stay as they were.  With a forecast   *)
(* <= 0 the inventory and the ledgers stay as they were.                    *)
C17_ReservationFrame ==
    [][\A i \in ForecastKinds : \A f \in ForecastInputs :
          create_project(Forecasts(i, f))
          => /\ material_deliveries' = material_deliveries
             /\ reorder_alerts' = reorder_alerts
             /\ \A m \in DOMAIN inventory :
                   inventory'[m].current_stock = inventory[m].current_stock
             /\ IF f > 0
                THEN /\ inventory'[i].reserved_stock = inventory[i].reserved_stock + f
                     /\ \A m \in DOMAIN inventory \ {i} : inventory'[m] = inventory[m]
                     /\ material_usage \subseteq material_usage'
                     /\ \E e \in material_usage' :
                           /\ material_usage' \ material_usage = {e}
                           /\ e.project_id = projectSeq'
                           /\ e.material_id = i
                           /\ e.quantity_used = -f
                ELSE /\ inventory' = inventory
                     /\ material_usage' = material_usage]_vars

(* A project has just been created with a reservation for a material that  *)
(* has stock from a delivery and an earlier usage entry.                    *)
C17_Witness ==
    /\ resp.op = "createProject"
    /\ \E e \in material_usage :
          /\ e.project_id = projectSeq
          /\ e.quantity_used < 0
          /\ inventory[e.material_id].reserved_stock = -e.quantity_used
          /\ inventory[e.material_id].current_stock > 0
          /\ \E u \in material_usage : u.material_id = e.material_id /\ u.quantity_used > 0
    /\ material_deliveries # {}

(* C18: the id that a successful logUsage or logDelivery returns is the id  *)
(* of the ledger entry the call appended, also when the call writes an      *)
(* alert row or creates an inventory record.                                *)
C18_ReturnedIdIsEntryId ==
    [][/\ (LogUsage /\ usageSeq' = usageSeq + 1 /\ resp'.code = 200)
             => resp'.rid = usageSeq'
       /\ (LogDelivery /\ deliverySeq' = deliverySeq + 1 /\ resp'.code = 200)
             => resp'.rid = deliverySeq']_vars

(* The usage half alone: a logUsage call that wrote an alert row. *)
C18_UsageIdWithAlert ==
    [][(LogUsage /\ usageSeq' = usageSeq + 1 /\ resp'.code = 200
          /\ reorder_alerts' # reorder_alerts)
             => resp'.rid = usageSeq']_vars

(* C19: when the inline evaluation of logUsage and the sweep evaluate the   *)
(* same pair with their statements interleaved, every upsert leaves the     *)
(* pair with exactly one active alert row, whose snapshot fields are the    *)
(* ones that upsert wrote, and no other statement of either changes an      *)
(* alert row: the row the pair ends with is that of the last upsert.        *)
WrittenBy(a, t) ==
    /\ a.current_stock = t.stock
    /\ a.reorder_point = t.threshold
    /\ a.suggested_order_quantity = t.qty
    /\ a.created_at = [day |-> today, clock |-> clock']

C19_LastUpsertWins ==
    [][/\ LoggerUpsert
             => LET act == ActiveOf(reorder_alerts', logger.mid, logger.pid)
                IN /\ Cardinality(act) = 1
                   /\ \A a \in act : WrittenBy(a, logger) /\ a.priority \in {"high", "medium"}
       /\ MonitorUpsert
             => LET act == ActiveOf(reorder_alerts', monitor.m, Head(monitor.pending))
                IN /\ Cardinality(act) = 1
                   /\ \A a \in act : WrittenBy(a, monitor) /\ a.priority \in {"critical", "high"}
       /\ ~(LoggerUpsert \/ MonitorUpsert) => reorder_alerts' = reorder_alerts]_vars

(* The monitor read the pair's stock, the logger then appended an entry and *)
(* upserted the alert, and the monitor's upsert replaced that row.          *)
C19_Witness ==
    /\ monitor.pc # "idle"
    /\ monitor.wrote
    /\ logger = Idle
    /\ alertSeq = 1
    /\ \E a \in ActiveOf(reorder_alerts, 1, 2) :
          /\ a.created_at.clock = 2
          /\ a.priority \in {"critical", "high"}
          /\ a.current_stock # PairStock(1, 2)

(* C20: when a logUsage call has run to completion during a sweep of the    *)
(* same pair, the alert row the sweep then writes holds a current stock     *)
(* that accounts for the entry the call appended, never a value read        *)
(* before that entry was written.                                           *)
C20_SweepStockIncludesEntry ==
    [][(MonitorUpsert /\ logger = Idle)
          => \A a \in ActiveOf(reorder_alerts', monitor.m, Head(monitor.pending)) :
                a.current_stock = ProjectStock(material_usage', material_deliveries',
                                               monitor.m, Head(monitor.pending))]_vars

(* ----------------------- claims C21 to C30 ----------------------------- *)

(* The pair has no positive usage entry within the 60 days before day.     *)
Dormant(usage, m, p, day) ==
    {e \in UsageOf(usage, m, p) : e.quantity_used > 0 /\ e.usage_day >= day - 60} = {}

AlertsOf(alerts, m, p) == {a \in alerts : a.material_id = m /\ a.project_id = p}

(* C21: an evaluation, by logUsage inline or by the sweep, of a pair that   *)
(* has no positive usage entry within the last 60 days, while the           *)
(* material's reserved stock is not positive, creates and updates no alert  *)
(* row of the pair.                                                         *)
C21_DormantPairUntouched ==
    [][(LogUsagePair \/ Sweep)
          => \A m \in Materials, p \in projects :
                (Dormant(material_usage', m, p, today) /\ inventory[m].reserved_stock <= 0)
                   => AlertsOf(reorder_alerts', m, p) = AlertsOf(reorder_alerts, m, p)]_vars

(* The total the negative usage entries of S reserve. *)
RECURSIVE SumReserved(_)
SumReserved(S) ==
    IF S = {} THEN 0
    ELSE LET e == CHOOSE x \in S : TRUE
         IN (IF e.quantity_used < 0 THEN 0 - e.quantity_used ELSE 0) + SumReserved(S \ {e})

(* The alert rows an evaluation step has just written. *)
WrittenRows == {a \in reorder_alerts' : a.created_at = [day |-> today, clock |-> clock']
                                         /\ a \notin reorder_alerts}

(* C22: the stock of a pair is the sum of its deliveries minus the sum of   *)
(* all its usage quantities, negative reservation entries included: every   *)
(* alert row an evaluation writes holds deliveries minus positive usage     *)
(* plus the reserved quantities, and a pair with one delivery D, a          *)
(* reservation X and no positive usage has stock D + X.                     *)
C22_StockCountsReservations ==
    [][/\ (LogUsagePair \/ Sweep)
             => \A a \in WrittenRows :
                   LET used == UsageOf(material_usage', a.material_id, a.project_id)
                       deliv == DeliveriesOf(material_deliveries', a.material_id, a.project_id)
                   IN a.current_stock
                         = SumDelivered(deliv) - SumPositive(used) + SumReserved(used)
       /\ \A m \in Materials, p \in projects :
             LET used == UsageOf(material_usage', m, p)
                 deliv == DeliveriesOf(material_deliveries', m, p)
             IN (Cardinality(deliv) = 1 /\ Cardinality(used) = 1
                   /\ \A e \in used : e.quantity_used < 0)
                   => \E d \in deliv, e \in used :
                         ProjectStock(material_usage', material_deliveries', m, p)
                            = d.quantity_delivered + (0 - e.quantity_used)]_vars

(* An alert row of a pair with a reservation: its stock snapshot exceeds    *)
(* deliveries minus positive usage by the reserved quantity of 20.          *)
C22_Witness ==
    \E a \in reorder_alerts :
        LET used == UsageOf(material_usage, a.material_id, a.project_id)
            deliv == DeliveriesOf(material_deliveries, a.material_id, a.project_id)
        IN /\ a.status = "active"
           /\ SumReserved(used) = 20
           /\ SumPositive(used) > 0
           /\ a.current_stock = SumDelivered(deliv) - SumPositive(used) + 20

(* The default of compute_project_threshold's lookback_days parameter. *)
lookback_days == 30

(* C23: the threshold of a pair is computed from the usage entries of the   *)
(* trailing lookback window of 30 days only: the threshold an evaluation    *)
(* writes is the one computed from the entries of the last 30 days, an      *)
(* older entry does not change it.                                          *)
C23_ThresholdFromLookbackOnly ==
    [][(LogUsagePair \/ Sweep)
          => \A a \in WrittenRows :
                a.reorder_point
                   = compute_project_threshold(
                        {e \in material_usage' : e.usage_day >= today - lookback_days},
                        a.material_id, a.project_id)]_vars

(* The monitoring thread runs a sweep in this step. *)
SweepStarts == monitor.pc = "sleep" /\ monitor.left = 0 /\ monitor' # monitor

(* The sweep's conditions for writing an alert row of the pair. *)
NeedsAlert(m, p) ==
    /\ SweepGate(material_deliveries, m, p)
    /\ RecentActivity(material_usage, inventory, m, p, today)
    /\ RatPositive(PairThreshold(m, p))
    /\ IntLess(PairStock(m, p), PairThreshold(m, p))

(* C24: in the periodic sweep a failure while processing one material does  *)
(* not prevent the reorder points and the alerts of the other materials     *)
(* from being computed and persisted in the same sweep.                     *)
C24_FailureIsolated ==
    [][SweepStarts
          => /\ monitor'.failed_reorder # 0
                   => \A m \in Materials \ {monitor'.failed_reorder} :
                         inventory'[m].reorder_point
                            = ReorderPointOf(material_usage, inventory, m, today)
             /\ monitor'.failed_alerts # 0
                   => \A m \in Materials \ {monitor'.failed_alerts}, p \in projects :
                         NeedsAlert(m, p)
                            => \E a \in ActiveOf(reorder_alerts', m, p) :
                                  /\ a.created_at.day = today
                                  /\ a.created_at.clock > clock]_vars

(* C25: after a sweep has thrown, the monitor does not terminate and starts *)
(* its next sweep once the cooldown of 5 minutes has elapsed, without       *)
(* waiting a further hourly interval: the sweep that follows a throw starts *)
(* RetryCooldown after it.                                                  *)
C25_RetryAfterCooldown ==
    [][(SweepStarts /\ monitor.since >= 0) => monitor.since = RetryCooldown]_vars

(* C27: deleting a project removes every usage entry and every delivery     *)
(* entry of that project from the ledger, and no other operation updates or *)
(* deletes a ledger entry.                                                  *)
C27_LedgerCascade ==
    [][/\ \A p \in projects \ projects' :
             /\ {e \in material_usage' : e.project_id = p} = {}
             /\ {e \in material_deliveries' : e.project_id = p} = {}
       /\ projects \subseteq projects'
             => /\ material_usage \subseteq material_usage'
                /\ material_deliveries \subseteq material_deliveries']_vars

AlertIds(alerts) == {a.id : a \in alerts}

(* C26: alert rows are never deleted: an evaluation that finds an active    *)
(* alert of the pair overwrites that row in place, keeping its id and the   *)
(* number of alert rows, and an evaluation inserts a new row only when the  *)
(* pair has no active alert.                                                *)
C26_RowsNeverDeleted ==
    [][/\ AlertIds(reorder_alerts) \subseteq AlertIds(reorder_alerts')
       /\ Cardinality(AlertIds(reorder_alerts')) = Cardinality(reorder_alerts')
       /\ (LogUsagePair \/ Sweep)
             => \A m \in Materials, p \in projects :
                   LET act == ActiveOf(reorder_alerts, m, p)
                       written == AlertsOf(WrittenRows, m, p)
                   IN /\ (act # {} /\ written # {})
                            => /\ AlertIds(written) = AlertIds(act)
                               /\ Cardinality(reorder_alerts') = Cardinality(reorder_alerts)
                               /\ alertSeq' = alertSeq
                      /\ AlertIds(AlertsOf(reorder_alerts', m, p))
                            # AlertIds(AlertsOf(reorder_alerts, m, p))
                            => /\ act = {}
                               /\ AlertIds(written) = {alertSeq + 1}]_vars

(* The one alert row of the pair, rewritten in place by a later evaluation. *)
C26_Witness ==
    /\ Cardinality(reorder_alerts) = 1
    /\ alertSeq = 1
    /\ \E a \in ActiveOf(reorder_alerts, 1, 2) : a.id = 1 /\ a.created_at.clock > 1

(* The warehouse rows with Steel's current stock replaced: what a second    *)
(* run that differs only in the warehouse stock holds in the same state.    *)
StockVariants(inv) == {[inv EXCEPT ![1].current_stock = v] : v \in {-5, 0, 100000}}

SameButStock(inv1, inv2) ==
    /\ DOMAIN inv1 = DOMAIN inv2
    /\ \A m \in DOMAIN inv1 : [inv1[m] EXCEPT !.current_stock = 0]
                                 = [inv2[m] EXCEPT !.current_stock = 0]

(* C28: the alerting decisions never depend on the warehouse's current      *)
(* stock: a second run in the same state but for the warehouse stock takes  *)
(* every logUsage, logDelivery, acknowledge and sweep step to the same      *)
(* alert rows, alert ids and clock, and to a state that again differs in    *)
(* the warehouse stock only, so two such runs of one operation sequence end *)
(* with identical alert rows.                                               *)
C28_AlertsIgnoreWarehouseStock ==
    [][\A inv2 \in StockVariants(inventory) :
          /\ Sweep
                => LET inv1 == calculate_reorder_points(material_usage, inv2, today)
                       st == check_inventory_alerts(reorder_alerts, alertSeq, clock,
                                 projects, material_usage, material_deliveries, inv1,
                                 today)
                   IN /\ st.alerts = reorder_alerts'
                      /\ st.seq = alertSeq'
                      /\ st.clock = clock'
                      /\ SameButStock(inv1, inventory')
          /\ LogUsagePair
                => \A e \in material_usage' \ material_usage :
                      LET ev == InlineEvaluate(material_usage', material_deliveries,
                                    reorder_alerts, alertSeq, e.material_id,
                                    e.project_id, [day |-> today, clock |-> clock + 1])
                      IN /\ ev.alerts = reorder_alerts'
                         /\ ev.seq = alertSeq'
                         /\ SameButStock(InventoryAfterUsage(inv2, material_deliveries,
                                             e.material_id, e.quantity_used),
                                         inventory')
          /\ LogDeliveryPair
                => /\ reorder_alerts' = reorder_alerts
                   /\ alertSeq' = alertSeq
                   /\ \A e \in material_deliveries' \ material_deliveries :
                         SameButStock([inv2 EXCEPT ![e.material_id].current_stock =
                                                      @ + e.quantity_delivered],
                                      inventory')
          /\ Acknowledge
                => /\ inventory' = inventory
                   /\ \A a \in reorder_alerts' \ reorder_alerts :
                         \E b \in reorder_alerts :
                            a = [b EXCEPT !.status = a.status,
                                          !.acknowledged_by = a.acknowledged_by,
                                          !.acknowledged_at = a.acknowledged_at]]_vars

(* A sweep has written a low-stock alert of the pair, from its stock of 20, *)
(* while the warehouse counts no stock of the material at all.              *)
C28_Witness ==
    /\ inventory[1].current_stock <= 0
    /\ \E a \in ActiveOf(reorder_alerts, 1, 2) :
          /\ a.priority = "high"
          /\ a.alert_type = "low_stock"
          /\ a.current_stock > 0

(* C29: every alert row written by logUsage or by the sweep has a threshold *)
(* snapshot greater than 0 and a current-stock snapshot strictly below that *)
(* threshold.                                                               *)
C29_SnapshotBelowThreshold ==
    \A a \in reorder_alerts :
        /\ RatPositive(a.reorder_point)
        /\ IntLess(a.current_stock, a.reorder_point)

(* Rows of both writers: one the inline evaluation wrote and, after its     *)
(* acknowledgement, one the sweep wrote, each with stock left.              *)
C29_Witness ==
    \E a \in reorder_alerts, b \in reorder_alerts :
        /\ a.status = "acknowledged" /\ a.priority = "medium" /\ a.current_stock > 0
        /\ b.status = "active" /\ b.priority = "high" /\ b.current_stock > 0

(* The step evaluates the pair: a logUsage call for it, or a sweep that     *)
(* does not skip it.                                                        *)
EvaluatesPair(m, p) ==
    \/ /\ LogUsagePair
       /\ \E e \in material_usage' \ material_usage :
             e.material_id = m /\ e.project_id = p
       /\ InlineGate(material_deliveries, m, p)
    \/ /\ Sweep
       /\ SweepGate(material_deliveries, m, p)
       /\ RecentActivity(material_usage, inventory, m, p, today)

(* C30: after the active alert of a pair has been acknowledged, the next    *)
(* evaluation, inline or by the sweep, that still finds the pair's stock    *)
(* below its threshold inserts a new active alert row of the pair and       *)
(* leaves the acknowledged row, its acknowledger and timestamp included,    *)
(* unchanged.                                                               *)
C30_NewRowAfterAcknowledge ==
    [][\A m \in Materials, p \in projects :
          LET acked == {a \in AlertsOf(reorder_alerts, m, p) : a.status = "acknowledged"}
          IN (/\ acked # {}
              /\ ActiveOf(reorder_alerts, m, p) = {}
              /\ EvaluatesPair(m, p)
              /\ IntLess(ProjectStock(material_usage', material_deliveries', m, p),
                         compute_project_threshold(material_usage', m, p)))
                => /\ acked \subseteq reorder_alerts'
                   /\ alertSeq' = alertSeq + 1
                   /\ \E a \in ActiveOf(reorder_alerts', m, p) :
                         /\ a.id = alertSeq'
                         /\ a.id \notin AlertIds(reorder_alerts)
                         /\ reorder_alerts' = reorder_alerts \cup {a}]_vars

(* Row 1 acknowledged by user 7 and kept, row 2 inserted after it by the    *)
(* next evaluation.                                                         *)
C30_Witness ==
    /\ alertSeq = 2
    /\ \E a \in reorder_alerts, b \in ActiveOf(reorder_alerts, 1, 2) :
          /\ a.id = 1 /\ a.status = "acknowledged" /\ a.acknowledged_by = 7
          /\ b.id = 2
          /\ TsLater(b.created_at, a.acknowledged_at)

====
